---- MODULE Spec2Model ----
(***************************************************************************)
(* Expense tracker (src/expense_app/expense_tracker.py): the in-session    *)
(* table st.session_state.df, the handlers that mutate it, and the         *)
(* backup / temp-file / replace sequence of save_excel_data.               *)
(***************************************************************************)
EXTENDS Integers, Sequences, FiniteSets, TLC

(* ------------------------------ bounds -------------------------------- *)
MaxRows == 3          \* rows the in-memory table may grow to
MaxAmount == 1        \* amounts passed to the handlers are 0..MaxAmount
MaxClock == 1         \* clock ticks explored by Spec
MaxSaveClock == 10    \* clock ticks explored by SaveSpec
MaxStepClock == 3     \* clock ticks explored by StepSpec
MaxRtClock == 2       \* clock ticks explored by RtSpec
MaxLifeClock == 3     \* clock ticks explored by LifeSpec
MaxMetricClock == 1   \* clock ticks within which MetricSpec starts a handler
MaxPurgeClock == 2    \* clock ticks explored by PurgeSpec
MaxStartClock == 2    \* clock ticks explored by StartSpec
MaxPeerClock == 2     \* clock ticks within which PeerSpec starts a call
MaxCatClock == 2      \* clock ticks explored by CatSpec
MaxTmp == 1           \* temp files that may be left behind in the directory
MaxFaults == 1        \* system calls that may fail in one behaviour

(* -------------------------- program constants ------------------------- *)
BACKUP_RETENTION == 5

(* ------------------------- modelling constants ------------------------ *)
TicksPerSecond == 2   \* clock ticks per second of the '%Y%m%d_%H%M%S' stamp
TicksPerDay == 4      \* clock ticks per day of the '%Y-%m-%d' stamp
StartDay == 1         \* the day the session starts on; the sheet holds older days

NA == "NA"            \* a missing text cell (None / NaN)
NaN == -1             \* a missing numeric cell
NaT == -1             \* a missing date cell (pd.NaT)
NoFile == [exists |-> FALSE]

Names == {"A"}
Cats == {"c1", "c2"}
Subs == {"Other", "s1"}
Amounts == 0..MaxAmount

VARIABLES
    df,          \* st.session_state.df: sequence of rows
    dirExists,   \* the directory of EXCEL_FILE exists
    disk,        \* the file at abs_path: NoFile or [exists, data, mt, whole]
    backups,     \* the files abs_path.bak.<ts>: function ts -> mtime
    tmpfiles,    \* number of tmp_expense_*.xlsx files in the directory
    clock,       \* the wall clock, in ticks
    sv,          \* the frame of the running save_excel_data call
    faults,      \* failed system calls so far
    nsaved,      \* successful saves made so far over an existing file
    ret,         \* what the last handler returned to its caller
    shown,       \* the money summary the page shows
    peer         \* the frame of a save_excel_data call of another process

vars == <<df, dirExists, disk, backups, tmpfiles, clock, sv, faults, nsaved, ret,
          shown, peer>>

(* ------------------------------ the clock ----------------------------- *)
\* datetime.now().strftime('%Y%m%d_%H%M%S')
ts(c) == c \div TicksPerSecond
\* datetime.now().strftime('%Y-%m-%d')
today(c) == StartDay + c \div TicksPerDay

(* ------------------------------ the table ----------------------------- *)
Row(n, inc, c, s, e, a, pd, due, p) ==
    [Name |-> n, Income |-> inc, Category |-> c, SubCategory |-> s,
     Expected |-> e, Actuals |-> a, PaymentDate |-> pd, DueDate |-> due,
     Paid |-> p]

\* (df['Expense Category'] == category) & (df['Expense SubCategory'] == subcategory)
KeyMask(t, category, subcategory) ==
    {i \in DOMAIN t : t[i].Category = category /\ t[i].SubCategory = subcategory}

\* df['Expense Category'] == category
CatMask(t, category) == {i \in DOMAIN t : t[i].Category = category}

\* df['Name'] == individual
NameMask(t, individual) == {i \in DOMAIN t : t[i].Name = individual}

\* notna() & != '' on both key columns: the rows that are expense records
ExpenseMask(t) ==
    {i \in DOMAIN t : /\ t[i].Category # NA /\ t[i].SubCategory # NA
                      /\ t[i].Category # "" /\ t[i].SubCategory # ""}

\* df[~mask]: the rows outside mask, in their order
RECURSIVE Drop(_, _, _)
Drop(t, mask, i) ==
    IF i > Len(t) THEN <<>>
    ELSE (IF i \in mask THEN <<>> ELSE <<t[i]>>) \o Drop(t, mask, i + 1)

(* --------------------------- the file codec --------------------------- *)
EmptyCell == ""       \* an empty text cell of the sheet

\* a writer that spells a missing value out
Cell_nan_text(v) == IF v = NA THEN "nan" ELSE v

\* openpyxl writes None, NaN and '' as an empty cell
Cell(v) == IF v = NA \/ v = "" THEN EmptyCell ELSE v

\* df.to_excel(tmp_path, sheet_name='Sheet1', index=False): the sheet written
to_excel(t) ==
    [i \in DOMAIN t |-> [t[i] EXCEPT !.Name = Cell(@), !.Category = Cell(@),
                                       !.SubCategory = Cell(@)]]

\* an empty cell reads as NaN
Value(c) == IF c = EmptyCell THEN NA ELSE c

\* pd.read_excel(abs_path, sheet_name='Sheet1'): the table read from a sheet
read_excel(sheet) ==
    [i \in DOMAIN sheet |-> [sheet[i] EXCEPT !.Name = Value(@),
                                               !.Category = Value(@),
                                               !.SubCategory = Value(@)]]

\* None, what load_excel_data returns when it has no table to return
None == <<[None |-> TRUE]>>

\* load_excel_data(): the table read from the backing file; None when the file
\* is missing or pd.read_excel raises on it
load_excel_data(file) ==
    IF file.exists /\ file.whole THEN read_excel(file.data) ELSE None

(* --------------------------- save_excel_data -------------------------- *)
\* The world save_excel_data acts on: the directory, the clock, the failures
\* met so far and the frame of the call (pc, the table passed, backup_path,
\* the temp file, the result).
World == [dir |-> dirExists, file |-> disk, bak |-> backups, ntmp |-> tmpfiles,
          clock |-> clock, nf |-> faults, fr |-> sv]

Idle == [pc |-> "idle", table |-> <<>>, backup_path |-> -1, tmp |-> "none",
         tmp_mt |-> 0, before |-> NoFile, ok |-> TRUE, msg |-> ""]

\* entry of save_excel_data(df)
Enter(w, t) ==
    [w EXCEPT !.fr = [pc |-> "makedirs", table |-> t, backup_path |-> -1,
                      tmp |-> "none", tmp_mt |-> 0, before |-> w.file,
                      ok |-> TRUE, msg |-> ""]]

Return(w, ok, msg) ==
    [w EXCEPT !.fr.pc = "done", !.fr.ok = ok, !.fr.msg = msg]

Goto(w, pc) == [w EXCEPT !.fr.pc = pc]

\* the outcomes S of a system call that fails: none once MaxFaults failures
\* have happened
Failing(w, S) ==
    IF w.nf < MaxFaults THEN {[x EXCEPT !.nf = @ + 1] : x \in S} ELSE {}

\* os.makedirs(dir_name, exist_ok=True); a raise lands in the outer except
Makedirs(w) ==
    IF w.dir THEN {Goto(w, "exists")}
    ELSE {Goto([w EXCEPT !.dir = TRUE], "exists")}
         \cup Failing(w, {Return(w, FALSE, "str(e)")})

\* if os.path.exists(abs_path): ts = ...; backup_path = f"{abs_path}.bak.{ts}"
Exists(w) ==
    IF w.file.exists
    THEN {Goto([w EXCEPT !.fr.backup_path = ts(w.clock)], "copy2")}
    ELSE {Goto(w, "mkstemp")}

\* f[k] := v, adding k to the domain when it is new
Put(f, k, v) == [x \in DOMAIN f \cup {k} |-> IF x = k THEN v ELSE f[x]]

\* copy2 whose failure is reported only after the save went on
Copy2_continue(w) ==
    LET b == w.fr.backup_path IN
    {Goto([w EXCEPT !.bak = Put(w.bak, b, w.file.mt)], "purge")}
    \cup Failing(w, {Goto(w, "purge")})

\* shutil.copy2(abs_path, backup_path): the copy keeps the source's mtime; a
\* failed copy leaves no file, or a truncated one stamped with the current time
Copy2(w) ==
    LET b == w.fr.backup_path IN
    {Goto([w EXCEPT !.bak = Put(w.bak, b, w.file.mt)], "purge")}
    \cup Failing(w, {Return(w, FALSE, "Failed to create backup"),
                     Return([w EXCEPT !.bak = Put(w.bak, b, w.clock)], FALSE,
                            "Failed to create backup")})

\* sorted(backups, key=getmtime)[:num_to_delete]: the sets the slice may be,
\* ties in mtime being ordered as glob listed them
Oldest(bak, n) ==
    {D \in SUBSET DOMAIN bak :
        /\ Cardinality(D) = n
        /\ \A d \in D : \A k \in DOMAIN bak \ D : bak[d] <= bak[k]}

Restrict(f, S) == [x \in S |-> f[x]]

\* a purge whose failure ends the call
Purge_blocking(w) ==
    LET n == Cardinality(DOMAIN w.bak)
        purged(R) == Goto([w EXCEPT !.bak = Restrict(w.bak, DOMAIN w.bak \ R)],
                          "mkstemp") IN
    IF n > BACKUP_RETENTION
    THEN UNION {{purged(D)} \cup Failing(w, {Return(w, FALSE, "str(e)")}) :
                   D \in Oldest(w.bak, n - BACKUP_RETENTION)}
    ELSE {Goto(w, "mkstemp")}

\* the purge of old backups: the slice is removed; when glob or an os.remove
\* fails, swallowed, part of the slice stays
Purge(w) ==
    LET n == Cardinality(DOMAIN w.bak)
        purged(R) == Goto([w EXCEPT !.bak = Restrict(w.bak, DOMAIN w.bak \ R)],
                          "mkstemp") IN
    IF n > BACKUP_RETENTION
    THEN UNION {{purged(D)} \cup Failing(w, {purged(R) : R \in (SUBSET D) \ {D}}) :
                   D \in Oldest(w.bak, n - BACKUP_RETENTION)}
    ELSE {Goto(w, "mkstemp")}

\* tempfile.mkstemp(prefix='tmp_expense_', suffix='.xlsx', dir=dir_name)
Mkstemp(w) ==
    {Goto([w EXCEPT !.ntmp = @ + 1, !.fr.tmp = "empty"], "to_excel")}
    \cup Failing(w, {Return(w, FALSE, "str(e)")})

\* to_excel writing to abs_path itself instead of the temp file
ToExcel_in_place(w) ==
    LET written(whole) == [exists |-> TRUE, data |-> to_excel(w.fr.table),
                           mt |-> w.clock, whole |-> whole] IN
    {Goto([w EXCEPT !.file = written(TRUE), !.fr.tmp = "whole",
                    !.fr.tmp_mt = w.clock], "replace")}
    \cup Failing(w, {Goto([w EXCEPT !.file = written(FALSE),
                                    !.fr.tmp = "partial",
                                    !.fr.tmp_mt = w.clock], "cleanup")})

\* df.to_excel(tmp_path, ...): the temp file is stamped with the time of the
\* write; a failed write leaves a truncated temp file
ToExcel(w) ==
    {Goto([w EXCEPT !.fr.tmp = "whole", !.fr.tmp_mt = w.clock], "replace")}
    \cup Failing(w, {Goto([w EXCEPT !.fr.tmp = "partial",
                                    !.fr.tmp_mt = w.clock], "cleanup")})

\* the content of the temp file
TmpContent(w) ==
    [exists |-> TRUE, data |-> to_excel(w.fr.table), mt |-> w.fr.tmp_mt,
     whole |-> w.fr.tmp = "whole"]

\* a replace that unlinks the target before it renames the temp file
Replace_unlink_first(w) ==
    {Return([w EXCEPT !.file = TmpContent(w), !.ntmp = @ - 1,
                      !.fr.tmp = "none"], TRUE, "Wrote")}
    \cup Failing(w, {Goto([w EXCEPT !.file = NoFile], "cleanup")})

\* a replace that copies the temp file over the target and then removes it
Replace_by_copy(w) ==
    IF w.file = [TmpContent(w) EXCEPT !.whole = FALSE]
    THEN {Return([w EXCEPT !.file = TmpContent(w), !.ntmp = @ - 1,
                           !.fr.tmp = "none"], TRUE, "Wrote")}
    ELSE {Goto([w EXCEPT !.file = [TmpContent(w) EXCEPT !.whole = FALSE]],
               "replace")}
         \cup Failing(w, {Goto(w, "cleanup")})

\* os.replace(tmp_path, abs_path)
Replace(w) ==
    {Return([w EXCEPT !.file = TmpContent(w), !.ntmp = @ - 1,
                      !.fr.tmp = "none"], TRUE, "Wrote")}
    \cup Failing(w, {Goto(w, "cleanup")})

\* a clean-up that returns the error and leaves the temp file where it is
Cleanup_keep(w) == {Return(w, FALSE, "str(we)")}

\* except Exception as we: os.remove(tmp_path), its failure swallowed
Cleanup(w) ==
    {Return([w EXCEPT !.ntmp = @ - 1, !.fr.tmp = "none"], FALSE, "str(we)")}
    \cup (IF w.ntmp <= MaxTmp THEN Failing(w, {Return(w, FALSE, "str(we)")})
          ELSE {})

\* one step of the call
Step(w) ==
    CASE w.fr.pc = "makedirs" -> Makedirs(w)
      [] w.fr.pc = "exists"   -> Exists(w)
      [] w.fr.pc = "copy2"    -> Copy2(w)
      [] w.fr.pc = "purge"    -> Purge(w)
      [] w.fr.pc = "mkstemp"  -> Mkstemp(w)
      [] w.fr.pc = "to_excel" -> ToExcel(w)
      [] w.fr.pc = "replace"  -> Replace(w)
      [] w.fr.pc = "cleanup"  -> Cleanup(w)
      [] OTHER                -> {}

\* the call run to its return
RECURSIVE Run(_)
Run(w) == IF w.fr.pc = "done" THEN {w} ELSE UNION {Run(x) : x \in Step(w)}

\* a call takes time: the clock has moved on by a tick when its work starts
Called(w) == [w EXCEPT !.clock = @ + 1]

\* save_excel_data(df): the worlds the call may return in
save_excel_data(t) == Run(Enter(Called(World), t))

\* the directory, the clock and the failures become those of w
Lands(w) ==
    /\ dirExists' = w.dir
    /\ disk' = w.file
    /\ backups' = w.bak
    /\ tmpfiles' = w.ntmp
    /\ clock' = w.clock
    /\ faults' = w.nf

\* the world the call returned in becomes the world, its frame popped
Becomes(w) ==
    /\ Lands(w)
    /\ sv' = Idle
    /\ nsaved' = IF w.fr.ok /\ w.fr.before.exists THEN nsaved + 1 ELSE nsaved
    /\ UNCHANGED <<shown, peer>>

files == <<dirExists, disk, backups, tmpfiles>>

(* ----------------------------- the handlers --------------------------- *)
\* what a handler hands back: its success flag, its message, the message of
\* save_excel_data it passes on and the number of save_excel_data calls made
Result(fn, ok, msg, err, n) ==
    [fn |-> fn, ok |-> ok, msg |-> msg, err |-> err, saves |-> n, count |-> 0]

\* Persist putting the old table back when the save failed
Persist_rollback(t, fn, failmsg, okmsg) ==
    \E w \in save_excel_data(t) :
        /\ Becomes(w)
        /\ df' = IF w.fr.ok THEN t ELSE df
        /\ ret' = IF w.fr.ok THEN Result(fn, TRUE, okmsg, "", 1)
                  ELSE Result(fn, FALSE, failmsg, w.fr.msg, 1)

\* Persist saving the table as it was before the change
Persist_stale(t, fn, failmsg, okmsg) ==
    /\ df' = t
    /\ \E w \in save_excel_data(df) :
         /\ Becomes(w)
         /\ ret' = IF w.fr.ok THEN Result(fn, TRUE, okmsg, "", 1)
                   ELSE Result(fn, FALSE, failmsg, w.fr.msg, 1)

\* st.session_state.df = df; success, err = save_excel_data(df); the two returns
Persist(t, fn, failmsg, okmsg) ==
    /\ df' = t
    /\ \E w \in save_excel_data(t) :
         /\ Becomes(w)
         /\ ret' = IF w.fr.ok THEN Result(fn, TRUE, okmsg, "", 1)
                   ELSE Result(fn, FALSE, failmsg, w.fr.msg, 1)

\* a return that precedes every change
Refuse(fn, msg) ==
    /\ ret' = Result(fn, FALSE, msg, "", 0)
    /\ clock' = Called(World).clock
    /\ UNCHANGED <<df, files, sv, faults, nsaved, shown, peer>>

\* df.loc[mask, col] = value, for each column
SetExpected(t, mask, v) ==
    [i \in DOMAIN t |-> IF i \in mask THEN [t[i] EXCEPT !.Expected = v] ELSE t[i]]
SetActuals(t, mask, v) ==
    [i \in DOMAIN t |-> IF i \in mask THEN [t[i] EXCEPT !.Actuals = v] ELSE t[i]]
SetIncome(t, mask, v) ==
    [i \in DOMAIN t |-> IF i \in mask THEN [t[i] EXCEPT !.Income = v] ELSE t[i]]
SetPaid(t, mask, v) ==
    [i \in DOMAIN t |-> IF i \in mask THEN [t[i] EXCEPT !.Paid = v] ELSE t[i]]
SetPaymentDate(t, mask, v) ==
    [i \in DOMAIN t |-> IF i \in mask THEN [t[i] EXCEPT !.PaymentDate = v] ELSE t[i]]

update_expected_value(category, subcategory, value) ==
    LET mask == KeyMask(df, category, subcategory) IN
    IF mask # {}
    THEN Persist(SetExpected(df, mask, value), "update_expected_value",
                 "Failed to save Expected value", "")
    ELSE Refuse("update_expected_value", "")

update_actual_value(category, subcategory, value) ==
    LET mask == KeyMask(df, category, subcategory) IN
    IF mask # {}
    THEN Persist(SetActuals(df, mask, value), "update_actual_value",
                 "Failed to save Actual value", "")
    ELSE Refuse("update_actual_value", "")

\* update_monthly_income setting the income on the first row of the name only
update_monthly_income_first_row(individual, income) ==
    LET rows == NameMask(df, individual)
        mask == {i \in rows : \A j \in rows : i <= j} IN
    IF mask # {}
    THEN Persist(SetIncome(df, mask, income), "update_monthly_income",
                 "Failed to save Monthly Income", "")
    ELSE Refuse("update_monthly_income", "")

update_monthly_income(individual, income) ==
    LET mask == NameMask(df, individual) IN
    IF mask # {}
    THEN Persist(SetIncome(df, mask, income), "update_monthly_income",
                 "Failed to save Monthly Income", "")
    ELSE Refuse("update_monthly_income", "")

\* reset_monthly taking every row of the sheet for an expense row
reset_monthly_all_rows ==
    LET mask == DOMAIN df IN
    IF mask # {}
    THEN LET t == SetPaid(SetPaymentDate(SetActuals(df, mask, 0), mask, NaT),
                          mask, FALSE) IN
         /\ df' = t
         /\ \E w \in save_excel_data(t) :
              /\ Becomes(w)
              /\ ret' = Result("reset_monthly", w.fr.ok, w.fr.msg, "", 1)
    ELSE Refuse("reset_monthly", "No expense rows to reset")

\* reset_monthly clearing the Due Date along with the Payment Date
reset_monthly_clears_due ==
    LET mask == ExpenseMask(df) IN
    IF mask # {}
    THEN LET t == SetPaid(SetPaymentDate(SetActuals(df, mask, 0), mask, NaT),
                          mask, FALSE)
             u == [i \in DOMAIN t |->
                     IF i \in mask THEN [t[i] EXCEPT !.DueDate = NaT] ELSE t[i]] IN
         /\ df' = u
         /\ \E w \in save_excel_data(u) :
              /\ Becomes(w)
              /\ ret' = Result("reset_monthly", w.fr.ok, w.fr.msg, "", 1)
    ELSE Refuse("reset_monthly", "No expense rows to reset")

\* reset_monthly saving once the amounts are reset and again once the flags
\* and dates are
reset_monthly_save_each ==
    LET mask == ExpenseMask(df) IN
    IF mask # {}
    THEN LET t1 == SetActuals(df, mask, 0)
             t == SetPaid(SetPaymentDate(t1, mask, NaT), mask, FALSE) IN
         /\ df' = t
         /\ \E w1 \in save_excel_data(t1) :
            \E w2 \in Run(Enter(Called(w1), t)) :
              /\ Lands(w2)
              /\ sv' = Idle
              /\ nsaved' = nsaved
                    + (IF w1.fr.ok /\ w1.fr.before.exists THEN 1 ELSE 0)
                    + (IF w2.fr.ok /\ w2.fr.before.exists THEN 1 ELSE 0)
              /\ ret' = Result("reset_monthly", w2.fr.ok, w2.fr.msg, "", 2)
              /\ UNCHANGED <<shown, peer>>
    ELSE Refuse("reset_monthly", "No expense rows to reset")

\* reset_monthly resetting one expense row a call: the first that has an
\* amount, a date or the flag, the first of all when none has
reset_monthly_one_row ==
    LET rows == ExpenseMask(df)
        dirty == {i \in rows : df[i].Actuals # 0 \/ df[i].Paid
                                  \/ df[i].PaymentDate # NaT}
        from == IF dirty # {} THEN dirty ELSE rows
        mask == {i \in from : \A j \in from : i <= j} IN
    IF rows # {}
    THEN LET t == SetPaid(SetPaymentDate(SetActuals(df, mask, 0), mask, NaT),
                          mask, FALSE) IN
         /\ df' = t
         /\ \E w \in save_excel_data(t) :
              /\ Becomes(w)
              /\ ret' = Result("reset_monthly", w.fr.ok, w.fr.msg, "", 1)
    ELSE Refuse("reset_monthly", "No expense rows to reset")

reset_monthly ==
    LET mask == ExpenseMask(df) IN
    IF mask # {}
    THEN LET t == SetPaid(SetPaymentDate(SetActuals(df, mask, 0), mask, NaT),
                          mask, FALSE) IN
         /\ df' = t
         /\ \E w \in save_excel_data(t) :
              /\ Becomes(w)
              /\ ret' = Result("reset_monthly", w.fr.ok, w.fr.msg, "", 1)
    ELSE Refuse("reset_monthly", "No expense rows to reset")

\* the row add_category_subcategory and add_category append
NewRow(category, subcategory, expected, actuals) ==
    Row(NA, NaN, category, subcategory, expected, actuals, NaT, NaT, FALSE)

\* add_category_subcategory looking for the combination in the first row only
add_category_subcategory_by_row(category, subcategory, expected, actuals) ==
    IF KeyMask(df, category, subcategory) \cap {1} # {}
    THEN Refuse("add_category_subcategory",
                "Category/Subcategory combination already exists!")
    ELSE Persist(Append(df, NewRow(category, subcategory, expected, actuals)),
                 "add_category_subcategory",
                 "Failed to save new category/subcategory", "Added")

\* add_category_subcategory saving before it looks for the combination
add_category_subcategory_save_first(category, subcategory, expected, actuals) ==
    IF KeyMask(df, category, subcategory) # {}
    THEN /\ df' = df
         /\ \E w \in save_excel_data(df) :
              /\ Becomes(w)
              /\ ret' = Result("add_category_subcategory", FALSE,
                               "Category/Subcategory combination already exists!",
                               "", 1)
    ELSE Persist(Append(df, NewRow(category, subcategory, expected, actuals)),
                 "add_category_subcategory",
                 "Failed to save new category/subcategory", "Added")

add_category_subcategory(category, subcategory, expected, actuals) ==
    IF KeyMask(df, category, subcategory) # {}
    THEN Refuse("add_category_subcategory",
                "Category/Subcategory combination already exists!")
    ELSE Persist(Append(df, NewRow(category, subcategory, expected, actuals)),
                 "add_category_subcategory",
                 "Failed to save new category/subcategory", "Added")

\* remove_category_subcategory blanking the subcategory of the row instead of
\* dropping the row
remove_category_subcategory_blank(category, subcategory) ==
    LET mask == KeyMask(df, category, subcategory) IN
    IF mask = {}
    THEN Refuse("remove_category_subcategory",
                "Category/Subcategory combination not found!")
    ELSE Persist([i \in DOMAIN df |->
                     IF i \in mask THEN [df[i] EXCEPT !.SubCategory = NA]
                     ELSE df[i]],
                 "remove_category_subcategory",
                 "Failed to save removal", "Removed")

\* remove_category_subcategory removing every row of the category
remove_category_subcategory_by_category(category, subcategory) ==
    LET mask == KeyMask(df, category, subcategory) IN
    IF mask = {}
    THEN Refuse("remove_category_subcategory",
                "Category/Subcategory combination not found!")
    ELSE Persist(Drop(df, CatMask(df, category), 1),
                 "remove_category_subcategory",
                 "Failed to save removal", "Removed")

remove_category_subcategory(category, subcategory) ==
    LET mask == KeyMask(df, category, subcategory) IN
    IF mask = {}
    THEN Refuse("remove_category_subcategory",
                "Category/Subcategory combination not found!")
    ELSE Persist(Drop(df, mask, 1), "remove_category_subcategory",
                 "Failed to save removal", "Removed")

\* set_paid_status leaving the old Payment Date when the flag is cleared
set_paid_status_keeps_date(category, subcategory, paid_flag) ==
    LET mask == KeyMask(df, category, subcategory) IN
    IF mask = {}
    THEN Refuse("set_paid_status", "Category/Subcategory not found")
    ELSE Persist(IF paid_flag
                 THEN SetPaymentDate(SetPaid(df, mask, paid_flag), mask,
                                     today(clock))
                 ELSE SetPaid(df, mask, paid_flag),
                 "set_paid_status", "Failed to save Paid status", "Set Paid")

set_paid_status(category, subcategory, paid_flag) ==
    LET mask == KeyMask(df, category, subcategory) IN
    IF mask = {}
    THEN Refuse("set_paid_status", "Category/Subcategory not found")
    ELSE Persist(SetPaymentDate(SetPaid(df, mask, paid_flag), mask,
                                IF paid_flag THEN today(clock) ELSE NaT),
                 "set_paid_status", "Failed to save Paid status", "Set Paid")

\* add_category refusing only when the category has the subcategory "Other"
add_category_by_key(category) ==
    IF KeyMask(df, category, "Other") # {}
    THEN Refuse("add_category", "Category already exists!")
    ELSE Persist(Append(df, NewRow(category, "Other", 0, 0)), "add_category",
                 "Failed to save new category", "Added new category")

add_category(category) ==
    IF CatMask(df, category) # {}
    THEN Refuse("add_category", "Category already exists!")
    ELSE Persist(Append(df, NewRow(category, "Other", 0, 0)), "add_category",
                 "Failed to save new category", "Added new category")

remove_category(category) ==
    LET mask == CatMask(df, category)
        count == Cardinality(mask) IN
    IF mask = {}
    THEN Refuse("remove_category", "Category not found!")
    ELSE /\ df' = Drop(df, mask, 1)
         /\ \E w \in save_excel_data(Drop(df, mask, 1)) :
              /\ Becomes(w)
              /\ ret' = IF w.fr.ok
                        THEN [Result("remove_category", TRUE,
                                     "Removed category", "", 1)
                              EXCEPT !.count = count]
                        ELSE Result("remove_category", FALSE,
                                    "Failed to save category removal",
                                    w.fr.msg, 1)

(* ---------------------------- the environment ------------------------- *)
\* time passes
Tick ==
    /\ clock' = clock + 1
    /\ UNCHANGED <<df, dirExists, disk, backups, tmpfiles, sv, faults, nsaved, ret,
                   shown, peer>>

\* the directory of the backing file is removed from outside, with all in it
RemoveDir ==
    /\ dirExists
    /\ dirExists' = FALSE
    /\ disk' = NoFile
    /\ backups' = <<>>
    /\ tmpfiles' = 0
    /\ UNCHANGED <<df, clock, sv, faults, nsaved, ret, shown, peer>>

\* nothing was shown yet
NotShown == [total_income |-> NaN, total_expenses |-> NaN,
             remaining_money |-> NaN, expected_remaining |-> NaN]

(* ------------------------------ the session --------------------------- *)
\* rows a loaded sheet may hold: an income row, a row carrying both an income
\* and an expense, an unpaid expense with a due date, a paid expense
SheetRows ==
    <<Row("A", 1, NA, NA, NaN, NaN, NaT, NaT, FALSE),
      Row("A", 0, "c1", "s1", 1, 1, NaT, NaT, FALSE),
      Row(NA, NaN, "c1", "Other", 1, 1, NaT, 1, FALSE),
      Row(NA, NaN, "c2", "s1", 1, 0, 0, NaT, TRUE)>>

\* the rows of SheetRows picked by S, in the order of the sheet
RECURSIVE Pick(_, _)
Pick(S, i) ==
    IF i > Len(SheetRows) THEN <<>>
    ELSE (IF i \in S THEN <<SheetRows[i]>> ELSE <<>>) \o Pick(S, i + 1)

\* the tables load_excel_data may return: up to MaxRows rows of SheetRows
LoadedTables ==
    {Pick(S, 1) : S \in {T \in SUBSET DOMAIN SheetRows : Cardinality(T) <= MaxRows}}

\* st.session_state.df = load_excel_data(): the session starts on the table
\* the backing file holds
Init ==
    /\ df \in LoadedTables
    /\ dirExists = TRUE
    /\ disk = [exists |-> TRUE, data |-> to_excel(df), mt |-> 0, whole |-> TRUE]
    /\ backups = <<>>
    /\ tmpfiles = 0
    /\ clock = 0
    /\ sv = Idle
    /\ faults = 0
    /\ nsaved = 0
    /\ ret = Result("load_excel_data", TRUE, "", "", 0)
    /\ shown = NotShown
    /\ peer = Idle

\* the names the callers pass
Categories == Cats
Individuals == Names \cup {"B"}

Handlers ==
    \/ \E c \in Categories, s \in Subs, v \in Amounts : update_expected_value(c, s, v)
    \/ \E c \in Categories, s \in Subs, v \in Amounts : update_actual_value(c, s, v)
    \/ \E n \in Individuals, v \in Amounts : update_monthly_income(n, v)
    \/ reset_monthly
    \/ \E c \in Categories, s \in Subs, e \in Amounts :
         Len(df) < MaxRows /\ add_category_subcategory(c, s, e, 0)
    \/ \E c \in Categories, s \in Subs : remove_category_subcategory(c, s)
    \/ \E c \in Categories, s \in Subs, p \in BOOLEAN : set_paid_status(c, s, p)
    \/ \E c \in Categories : Len(df) < MaxRows /\ add_category(c)
    \/ \E c \in Categories : remove_category(c)

Next ==
    /\ clock < MaxClock
    /\ Handlers

Spec == Init /\ [][Next]_vars

(* ------------------- many saves of one expense record ----------------- *)
\* a session on a sheet of one row
OneRow == <<Row("A", 0, "c1", "s1", 1, 1, NaT, NaT, FALSE)>>

SaveInit == Init /\ df = OneRow

SaveNext ==
    /\ clock < MaxSaveClock
    /\ \/ \E v \in Amounts : update_actual_value("c1", "s1", v)
       \/ Tick

SaveSpec == SaveInit /\ [][SaveNext]_vars

(* ---------------- save_excel_data, one system call at a time ---------- *)
\* update_actual_value up to its call of save_excel_data
update_actual_value_call(category, subcategory, value) ==
    LET mask == KeyMask(df, category, subcategory) IN
    /\ sv.pc = "idle"
    /\ mask # {}
    /\ df' = SetActuals(df, mask, value)
    /\ LET w == Enter(Called(World), SetActuals(df, mask, value)) IN
         Lands(w) /\ sv' = w.fr
    /\ UNCHANGED <<nsaved, ret, shown, peer>>

\* the next system call of the running save_excel_data
save_excel_data_step ==
    /\ sv.pc \notin {"idle", "done"}
    /\ \E w \in Step(World) : Lands(w) /\ sv' = w.fr
    /\ UNCHANGED <<df, nsaved, ret, shown, peer>>

\* update_actual_value from the return of save_excel_data
update_actual_value_return ==
    /\ sv.pc = "done"
    /\ sv' = Idle
    /\ nsaved' = IF sv.ok /\ sv.before.exists THEN nsaved + 1 ELSE nsaved
    /\ ret' = IF sv.ok THEN Result("update_actual_value", TRUE, "", "", 1)
              ELSE Result("update_actual_value", FALSE,
                          "Failed to save Actual value", sv.msg, 1)
    /\ UNCHANGED <<df, files, clock, faults, shown, peer>>

StepNext ==
    /\ clock < MaxStepClock
    /\ \/ \E c \in Cats, s \in Subs, v \in Amounts : update_actual_value_call(c, s, v)
       \/ save_excel_data_step
       \/ update_actual_value_return
       \/ Tick
       \/ (sv.pc = "idle" /\ RemoveDir)

StepSpec == Init /\ [][StepNext]_vars

(* ------------------ names that are empty, saved and read -------------- *)
\* the Manage Categories form strips the names; the handlers take them as
\* they come, the empty string included
RtNext ==
    /\ clock < MaxRtClock
    /\ \/ \E c \in {"c2", ""}, s \in {"s1", ""}, e \in Amounts :
            Len(df) < MaxRows /\ add_category_subcategory(c, s, e, 0)
       \/ \E c \in {"c2", ""}, s \in {"s1", ""}, p \in BOOLEAN :
            set_paid_status(c, s, p)
       \/ \E c \in {"c2", ""}, s \in {"s1", ""} :
            remove_category_subcategory(c, s)
       \/ \E n \in Individuals, v \in Amounts : update_monthly_income(n, v)

RtSpec == Init /\ [][RtNext]_vars

(* ----------------------- reset_monthly, call after call --------------- *)
LifeNext ==
    /\ clock < MaxLifeClock
    /\ \/ reset_monthly
       \/ Tick

LifeSpec == Init /\ [][LifeNext]_vars

(* ---------------------------- the money summary ---------------------- *)
\* the sum of f over S
RECURSIVE Sum(_, _)
Sum(f, S) ==
    IF S = {} THEN 0
    ELSE LET x == CHOOSE y \in S : TRUE IN f[x] + Sum(f, S \ {x})

\* pd.to_numeric(..., errors='coerce').fillna(0)
fillna(v) == IF v = NaN THEN 0 ELSE v

\* df[df['Name'] == individual][...].iloc[0]: the first row carrying the name
iloc0(t, individual) ==
    CHOOSE i \in NameMask(t, individual) : \A j \in NameMask(t, individual) : i <= j

\* get_total_income that looks past a first row whose income is missing
get_total_income_first_valid(t) ==
    LET individuals == {t[i].Name : i \in {j \in DOMAIN t : t[j].Name # NA}}
        valid(n) == {i \in NameMask(t, n) : t[i].Income # NaN}
        income_row(n) ==
            IF valid(n) = {} THEN NaN
            ELSE t[CHOOSE i \in valid(n) : \A j \in valid(n) : i <= j].Income
    IN Sum([n \in individuals |-> fillna(income_row(n))], individuals)

get_total_income(t) ==
    LET individuals == {t[i].Name : i \in {j \in DOMAIN t : t[j].Name # NA}}
        income_row(n) == t[iloc0(t, n)].Income
    IN Sum([n \in individuals |->
               IF income_row(n) # NaN THEN income_row(n) ELSE 0], individuals)

\* is_open_due that leaves the Paid flag out
is_open_due_any(row, day) ==
    IF row.DueDate = NaT THEN FALSE ELSE row.DueDate > day

\* is_open_due(row) of get_total_expenses, day being today
is_open_due(row, day) ==
    IF row.DueDate = NaT THEN FALSE
    ELSE IF row.DueDate > day /\ ~row.Paid THEN TRUE
    ELSE FALSE

get_total_expenses(t, c) ==
    LET expenses_df == ExpenseMask(t)
        filtered == {i \in expenses_df : ~is_open_due(t[i], today(c))}
    IN Sum([i \in filtered |-> fillna(t[i].Actuals)], filtered)

\* get_expected_money_on_hand leaving the open dues out of the allocation
get_expected_money_on_hand_due(t, c) ==
    LET expenses_df == {i \in ExpenseMask(t) : ~is_open_due(t[i], today(c))}
        total_expected == Sum([i \in expenses_df |-> fillna(t[i].Expected)],
                              expenses_df)
    IN get_total_income(t) - total_expected

\* get_expected_money_on_hand(): it reads no date; c is the clock of the call
get_expected_money_on_hand(t, c) ==
    LET expenses_df == ExpenseMask(t)
        total_expected == Sum([i \in expenses_df |-> fillna(t[i].Expected)],
                              expenses_df)
    IN get_total_income(t) - total_expected

get_remaining_money(t, c) == get_total_income(t) - get_total_expenses(t, c)

\* the page computes the figures of "Money Summary" from the table as it is
money_summary ==
    /\ shown' = [total_income |-> get_total_income(df),
                 total_expenses |-> get_total_expenses(df, clock),
                 remaining_money |-> get_remaining_money(df, clock),
                 expected_remaining |-> get_expected_money_on_hand(df, clock)]
    /\ UNCHANGED <<df, files, clock, sv, faults, nsaved, ret, peer>>

(* --------------------------- "Save Changes" --------------------------- *)
SetDueDate(t, mask, v) ==
    [i \in DOMAIN t |-> IF i \in mask THEN [t[i] EXCEPT !.DueDate = v] ELSE t[i]]

\* 1 when the call that returned in w replaced an existing file
Saved(w) == IF w.fr.ok /\ w.fr.before.exists THEN 1 ELSE 0

\* the button "Save Changes": update_expected_value, update_actual_value, the
\* Due Date set in place and saved and, when that save succeeded,
\* set_paid_status; due_val is NaT when "Has Due Date" is not ticked
save_expense(category, subcategory, new_expected, new_actual, due_val, paid_flag) ==
    LET mask == KeyMask(df, category, subcategory)
        t1 == SetExpected(df, mask, new_expected)
        t2 == SetActuals(t1, mask, new_actual)
        t3 == SetDueDate(t2, mask, due_val) IN
    /\ mask # {}
    /\ \E w1 \in Run(Enter(Called(World), t1)) :
       \E w2 \in Run(Enter(Called(w1), t2)) :
       \E w3 \in Run(Enter(Called(w2), t3)) :
          IF ~w3.fr.ok
          THEN /\ df' = t3
               /\ Lands(w3)
               /\ nsaved' = nsaved + Saved(w1) + Saved(w2)
               /\ ret' = Result("save_expense", FALSE,
                                "Failed to save Due Date change", w3.fr.msg, 3)
          ELSE LET t4 == SetPaymentDate(SetPaid(t3, mask, paid_flag), mask,
                                        IF paid_flag THEN today(w3.clock)
                                        ELSE NaT) IN
               \E w4 \in Run(Enter(Called(w3), t4)) :
                  /\ df' = t4
                  /\ Lands(w4)
                  /\ nsaved' = nsaved + Saved(w1) + Saved(w2) + Saved(w3)
                                      + Saved(w4)
                  /\ ret' = Result("save_expense",
                                   w1.fr.ok \/ w2.fr.ok \/ w4.fr.ok,
                                   "Updated", "", 4)
    /\ sv' = Idle
    /\ UNCHANGED <<shown, peer>>

(* ----------------- the money summary over dues and incomes ------------ *)
\* rows a sheet may hold: a name whose first row has no income, a row with an
\* income and an expense, a second name, an unpaid expense due tomorrow, a
\* paid one due tomorrow, an unpaid one that was due yesterday
MetricRows ==
    <<Row("A", NaN, NA, NA, NaN, NaN, NaT, NaT, FALSE),
      Row("A", 1, "c1", "s1", 1, 1, NaT, NaT, FALSE),
      Row("B", 1, NA, NA, NaN, NaN, NaT, NaT, FALSE),
      Row(NA, NaN, "c1", "Other", 1, 1, NaT, StartDay + 1, FALSE),
      Row(NA, NaN, "c2", "s1", 1, 1, 0, StartDay + 1, TRUE),
      Row(NA, NaN, "c2", "Other", 0, 1, NaT, StartDay - 1, FALSE)>>

\* the rows of a sheet picked by S, in the order of the sheet
RECURSIVE Take(_, _, _)
Take(rows, S, i) ==
    IF i > Len(rows) THEN <<>>
    ELSE (IF i \in S THEN <<rows[i]>> ELSE <<>>) \o Take(rows, S, i + 1)

MetricTables ==
    {Take(MetricRows, S, 1) :
        S \in {T \in SUBSET DOMAIN MetricRows : Cardinality(T) <= MaxRows}}

\* the dates the date picker of the form hands over, NaT for none
DueDates == {NaT, StartDay, StartDay + 2}

MetricInit ==
    /\ df \in MetricTables
    /\ dirExists = TRUE
    /\ disk = [exists |-> TRUE, data |-> to_excel(df), mt |-> 0, whole |-> TRUE]
    /\ backups = <<>>
    /\ tmpfiles = 0
    /\ clock = 0
    /\ sv = Idle
    /\ faults = 0
    /\ nsaved = 0
    /\ ret = Result("load_excel_data", TRUE, "", "", 0)
    /\ shown = NotShown
    /\ peer = Idle

MetricNext ==
    \/ money_summary
    \/ /\ clock < MaxMetricClock
       /\ \E c \in Categories, s \in Subs, e \in Amounts, a \in Amounts,
             d \in DueDates, p \in BOOLEAN : save_expense(c, s, e, a, d, p)

MetricSpec == MetricInit /\ [][MetricNext]_vars

(* ============================== the claims ============================ *)
\* the expense records of a table: its rows with a category and a subcategory
Expenses(t) == {t[i] : i \in ExpenseMask(t)}

\* C1: every expense record has a Payment Date when it is paid and none when
\* it is not, whatever handlers ran and whether or not their saves succeeded.
C1_PaidHasDate ==
    \A r \in Expenses(df) :
        /\ r.Paid => r.PaymentDate # NaT
        /\ ~r.Paid => r.PaymentDate = NaT

\* set_paid_status has cleared the flag of a record and a paid record remains
C1_Witness ==
    /\ ret.fn = "set_paid_status" /\ ret.saves = 1
    /\ \E r \in Expenses(df) : ~r.Paid /\ r.PaymentDate = NaT
    /\ \E r \in Expenses(df) : r.Paid

\* C2: no two expense records share both category and subcategory.
C2_UniqueKey ==
    \A i \in ExpenseMask(df) : \A j \in ExpenseMask(df) :
        (df[i].Category = df[j].Category /\ df[i].SubCategory = df[j].SubCategory)
            => i = j

\* a record was appended to a table that held others
C2_Witness ==
    /\ ret.fn \in {"add_category_subcategory", "add_category"} /\ ret.saves = 1
    /\ Cardinality(ExpenseMask(df)) >= 2

\* the handler returned failure, changed nothing and did not call
\* save_excel_data
Refused ==
    /\ ~ret'.ok
    /\ df' = df
    /\ ret'.saves = 0
    /\ UNCHANGED <<files, sv, faults, nsaved>>

\* C3: add_category_subcategory called with a pair the table holds returns
\* failure, leaves the table as it is and does not call save_excel_data.
C3_DuplicateRefused ==
    [][\A c \in Categories, s \in Subs, e \in Amounts :
          (KeyMask(df, c, s) # {} /\ add_category_subcategory(c, s, e, 0))
              => Refused]_vars

\* the handler has refused a pair that is in the table
C3_Witness ==
    /\ ret.fn = "add_category_subcategory"
    /\ ret.msg = "Category/Subcategory combination already exists!"
    /\ \E i \in DOMAIN df : df[i].Category # NA

\* C4: while save_excel_data runs and after it, whichever step failed, the
\* backing file holds a whole table: the one it held when the call started or
\* the one passed to the call.
C4_FileNeverPartial ==
    /\ disk.exists => disk.whole
    /\ sv.pc # "idle" =>
          \/ disk = sv.before
          \/ disk.exists /\ disk.whole /\ disk.data = to_excel(sv.table)

\* a write has failed half way and the call is cleaning up
C4_Witness ==
    /\ sv.pc = "cleanup" /\ sv.tmp = "partial"
    /\ disk.exists /\ disk.data # to_excel(sv.table)

C6_WriteFailureKeepsFile ==
    [][/\ (sv.pc \in {"to_excel", "replace"} /\ faults' > faults)
            => (sv'.pc = "cleanup" /\ disk' = sv.before)
       /\ (sv.pc = "cleanup" /\ sv'.pc # "cleanup")
            => (sv'.pc = "done" /\ ~sv'.ok /\ disk' = sv.before)
       /\ (sv.pc = "done" /\ ~sv.ok /\ sv'.pc = "idle")
            => (~ret'.ok /\ df' = sv.table /\ disk' = sv.before)]_vars

\* the caller was told of a failed write or replace and its table is not the
\* one on disk
C6_Witness ==
    /\ sv.pc = "idle" /\ ~ret.ok /\ ret.err = "str(we)"
    /\ disk.exists /\ disk.data # to_excel(df)

\* C7: once BACKUP_RETENTION + 1 saves over an existing file have succeeded,
\* exactly BACKUP_RETENTION backup files exist.
C7_ExactlyRetention ==
    nsaved >= BACKUP_RETENTION + 1
        => Cardinality(DOMAIN backups) = BACKUP_RETENTION

\* the records of a table: its expense rows and the incomes of its named rows
Records(t) ==
    [expenses |-> Drop(t, DOMAIN t \ ExpenseMask(t), 1),
     incomes |-> {<<t[i].Name, t[i].Income>> :
                     i \in {j \in DOMAIN t : t[j].Name # NA /\ t[j].Name # ""}}]

KeysIn(t) == {k \in Categories \X Subs : KeyMask(t, k[1], k[2]) # {}}
CatsIn(t) == {c \in Categories : CatMask(t, c) # {}}
NamesIn(t) == {n \in Individuals : NameMask(t, n) # {}}

\* the tables a handler makes of t when the precondition on its key holds
Mutations(fn, t) ==
    CASE fn = "update_expected_value" ->
           {SetExpected(t, KeyMask(t, k[1], k[2]), v) :
              k \in KeysIn(t), v \in Amounts}
      [] fn = "update_actual_value" ->
           {SetActuals(t, KeyMask(t, k[1], k[2]), v) :
              k \in KeysIn(t), v \in Amounts}
      [] fn = "update_monthly_income" ->
           {SetIncome(t, NameMask(t, n), v) : n \in NamesIn(t), v \in Amounts}
      [] fn = "reset_monthly" ->
           {SetPaid(SetPaymentDate(SetActuals(t, ExpenseMask(t), 0),
                                   ExpenseMask(t), NaT), ExpenseMask(t), FALSE)}
      [] fn = "add_category_subcategory" ->
           {Append(t, NewRow(k[1], k[2], e, 0)) :
              k \in (Categories \X Subs) \ KeysIn(t), e \in Amounts}
      [] fn = "add_category" ->
           {Append(t, NewRow(c, "Other", 0, 0)) : c \in Categories \ CatsIn(t)}
      [] fn = "remove_category_subcategory" ->
           {Drop(t, KeyMask(t, k[1], k[2]), 1) : k \in KeysIn(t)}
      [] fn = "remove_category" ->
           {Drop(t, CatMask(t, c), 1) : c \in CatsIn(t)}
      [] fn = "set_paid_status" ->
           {SetPaymentDate(SetPaid(t, KeyMask(t, k[1], k[2]), p),
                           KeyMask(t, k[1], k[2]),
                           IF p THEN today(clock) ELSE NaT) :
              k \in KeysIn(t), p \in BOOLEAN}
      [] OTHER -> {}

\* the backing file does not hold the table t written at time c
NotStored(file, t, c) ==
    file # [exists |-> TRUE, data |-> to_excel(t), mt |-> c, whole |-> TRUE]

\* C9: when the save of a handler whose key is in the table fails, the
\* handler returns failure and the in-memory table is the mutated one.
C9_FailedSaveKeepsMutation ==
    [][(faults' > faults /\ NotStored(disk', df', clock'))
          => /\ ~ret'.ok /\ ret'.saves = 1
             /\ df' \in Mutations(ret'.fn, df)
             /\ ret'.fn \in {"add_category_subcategory", "add_category",
                              "remove_category_subcategory",
                              "remove_category"} => df' # df]_vars

\* a removal was kept in memory although its save failed
C9_Witness ==
    /\ ret.fn = "remove_category" /\ ~ret.ok /\ ret.saves = 1
    /\ disk.exists /\ Len(disk.data) > Len(df)

\* C10: a handler called on a key the table does not hold (a pair, a
\* category, an individual; for reset_monthly a table without expense rows)
\* returns failure, leaves the table and the files as they are and does not
\* call save_excel_data.
C10_MissingKeyRefused ==
    [][/\ \A c \in Categories, s \in Subs :
            KeyMask(df, c, s) = {} =>
               /\ \A v \in Amounts : update_expected_value(c, s, v) => Refused
               /\ \A v \in Amounts : update_actual_value(c, s, v) => Refused
               /\ \A p \in BOOLEAN : set_paid_status(c, s, p) => Refused
               /\ remove_category_subcategory(c, s) => Refused
       /\ \A c \in Categories :
            (CatMask(df, c) = {} /\ remove_category(c)) => Refused
       /\ \A n \in Individuals, v \in Amounts :
            (NameMask(df, n) = {} /\ update_monthly_income(n, v)) => Refused
       /\ (ExpenseMask(df) = {} /\ reset_monthly) => Refused]_vars

\* reset_monthly has refused a sheet that has rows, none of them an expense
C10_Witness ==
    /\ ret.fn = "reset_monthly" /\ ret.msg = "No expense rows to reset"
    /\ ret.saves = 0 /\ Len(df) > 0

\* the expense rows of a table, in their order
ExpenseRows(t) == Drop(t, DOMAIN t \ ExpenseMask(t), 1)

\* the income records of a table: each individual with the income of the
\* first row that carries the name
Incomes(t) ==
    {<<n, t[iloc0(t, n)].Income>> : n \in {t[i].Name : i \in DOMAIN t} \ {NA, ""}}

\* C11: remove_category(C) called when a row has category C leaves the
\* expense records of the other categories, in their order, and every income
\* record; the count of its message is the number of expense records of C.
C11_CascadingDelete ==
    [][\A c \in Categories :
          (CatMask(df, c) # {} /\ remove_category(c))
              => /\ ExpenseRows(df')
                      = SelectSeq(ExpenseRows(df), LAMBDA r : r.Category # c)
                 /\ ret'.ok => ret'.count
                      = Cardinality({i \in ExpenseMask(df) : df[i].Category = c})
                 /\ Incomes(df') = Incomes(df)]_vars

\* every expense record is reset: no amount spent, not paid, no Payment Date
AllReset(t) ==
    \A r \in Expenses(t) : r.Actuals = 0 /\ ~r.Paid /\ r.PaymentDate = NaT

\* C12: reset_monthly called right after reset_monthly leaves the table as
\* the first call made it, every expense record reset, and neither call
\* changes an Expected or a Monthly Income.
C12_ResetIdempotent ==
    [][reset_monthly
          => /\ (ret.fn = "reset_monthly" /\ ret.saves = 1)
                   => (df' = df /\ AllReset(df'))
             /\ ExpenseMask(df) # {} => AllReset(df')
             /\ Len(df') = Len(df)
             /\ \A i \in DOMAIN df : /\ df'[i].Expected = df[i].Expected
                                     /\ df'[i].Income = df[i].Income
                                     /\ df'[i].Name = df[i].Name]_vars

\* two calls of reset_monthly have saved a table of two expense records, one
\* of which was paid when the session started
C12_Witness ==
    /\ ret.fn = "reset_monthly" /\ ret.ok /\ nsaved = 2
    /\ Cardinality(ExpenseMask(df)) >= 2 /\ AllReset(df)
    /\ \E i \in DOMAIN df : df[i].Category = "c2" /\ df[i].SubCategory = "s1"

\* C13: reset_monthly changes nothing but Actuals, Paid and Payment Date of
\* the expense rows: the rows, their order and their keys, Expected, Due Date
\* and the rows that are no expense rows stay as they are.
C13_ResetFrame ==
    [][reset_monthly
          => /\ Len(df') = Len(df)
             /\ \A i \in DOMAIN df :
                  /\ df'[i] = [df[i] EXCEPT !.Actuals = df'[i].Actuals,
                                            !.Paid = df'[i].Paid,
                                            !.PaymentDate = df'[i].PaymentDate]
                  /\ i \notin ExpenseMask(df) => df'[i] = df[i]
             /\ Incomes(df') = Incomes(df)]_vars

\* reset_monthly has reset a sheet holding an income row and an expense with
\* a Due Date and an Expected amount
C13_Witness ==
    /\ ret.fn = "reset_monthly" /\ ret.saves = 1 /\ AllReset(df)
    /\ \E r \in Expenses(df) : r.DueDate # NaT /\ r.Expected # 0
    /\ \E i \in DOMAIN df : df[i].Name # NA /\ df[i].Income # NaN

\* the expense rows totalExpenses counts on a day: those without a Due Date,
\* those due on the day or before it and those marked paid
Counted(t, day) ==
    {i \in ExpenseMask(t) :
        t[i].DueDate = NaT \/ t[i].DueDate <= day \/ t[i].Paid}

\* C14: the total of expenses the page shows is the sum of Actuals over the
\* expense records that are not open due, an open due being an unpaid record
\* whose Due Date is after today.
C14_TotalExpenses ==
    [][money_summary
          => /\ shown'.total_expenses
                  = Sum([i \in Counted(df, today(clock)) |-> df[i].Actuals],
                        Counted(df, today(clock)))
             /\ \A i \in ExpenseMask(df) :
                  i \in Counted(df, today(clock))
                     <=> ~(/\ df[i].DueDate # NaT
                           /\ df[i].DueDate > today(clock)
                           /\ df[i].Paid = FALSE)]_vars

\* the summary was computed over an unpaid record due tomorrow, a paid record
\* due tomorrow and an unpaid record that was due yesterday: two are counted
C14_Witness ==
    /\ shown # NotShown
    /\ \E i \in ExpenseMask(df) : df[i].DueDate > today(clock) /\ ~df[i].Paid
    /\ \E i \in ExpenseMask(df) : df[i].DueDate > today(clock) /\ df[i].Paid
    /\ \E i \in ExpenseMask(df) : df[i].DueDate # NaT /\ df[i].DueDate < today(clock)
    /\ Cardinality(ExpenseMask(df)) = 3
    /\ shown.total_expenses = 2

\* the individuals of a table: the names its rows carry
IndividualsOf(t) == {t[i].Name : i \in DOMAIN t} \ {NA}

\* the income of the first of the rows in S that has one, 0 when none has
FirstIncome(t, S) ==
    LET valid == {i \in S : t[i].Income # NaN} IN
    IF valid = {} THEN 0
    ELSE t[CHOOSE i \in valid : \A j \in valid : i <= j].Income

\* C15 as stated: the total income the page shows is the sum, over the
\* individuals, of the first Monthly Income that is not missing among the rows
\* of the individual, 0 only when all are missing.
C15_FirstNonMissingIncome ==
    [][money_summary
          => shown'.total_income
                = Sum([n \in IndividualsOf(df) |-> FirstIncome(df, NameMask(df, n))],
                      IndividualsOf(df))]_vars

\* C15, amended: the total income the page shows is the sum, over the
\* individuals, of the Monthly Income of the first row of the individual, 0
\* when that cell is missing.
C15_FirstRowIncome ==
    [][money_summary
          => shown'.total_income
                = Sum([n \in IndividualsOf(df) |->
                          FirstIncome(df, {iloc0(df, n)})],
                      IndividualsOf(df))]_vars

\* the summary was computed over a sheet whose first row of "A" has no income
\* and whose second has one: "A" counts 0
C15_Witness ==
    /\ shown # NotShown
    /\ Len(df) = 2
    /\ df[1].Name = "A" /\ df[1].Income = NaN
    /\ df[2].Name = "A" /\ df[2].Income = 1
    /\ shown.total_income = 0

\* the rows of u are those of t but for Due Date, Paid and Payment Date
OnlyDueOrPaid(t, u) ==
    /\ Len(u) = Len(t)
    /\ \A i \in DOMAIN t :
          u[i] = [t[i] EXCEPT !.DueDate = u[i].DueDate, !.Paid = u[i].Paid,
                              !.PaymentDate = u[i].PaymentDate]

C17_PersistedInOrder ==
    [][/\ disk' # disk
            => /\ disk'.exists /\ disk'.whole
               /\ disk'.data = to_excel(df')
       /\ (ret'.saves = 1 /\ ret'.ok)
            => (disk'.exists /\ disk'.data = to_excel(df'))]_vars

\* an added row whose save failed is on disk after the income update that
\* followed it saved
C17_Witness ==
    /\ ret.fn = "update_monthly_income" /\ ret.ok /\ ret.saves = 1
    /\ faults = 1
    /\ \E i \in DOMAIN df : df[i].Category = ""
    /\ disk.exists /\ disk.data = to_excel(df)

\* the handler called save_excel_data once, on the table it left in memory
OneSave ==
    /\ ret'.saves = 1
    /\ clock' = clock + 1
    /\ nsaved' <= nsaved + 1
    /\ ret'.ok => /\ disk' = [exists |-> TRUE, data |-> to_excel(df'),
                              mt |-> clock', whole |-> TRUE]
                  /\ nsaved' = nsaved + (IF disk.exists THEN 1 ELSE 0)

\* C18: a handler called on a key the table holds calls save_excel_data once,
\* on the table it has updated, and returns after it; reset_monthly makes one
\* save of all the rows it reset.
C18_OneSaveAttempt ==
    [][/\ \A c \in Categories, s \in Subs :
            /\ KeyMask(df, c, s) # {} =>
                 /\ \A v \in Amounts : update_expected_value(c, s, v) => OneSave
                 /\ \A v \in Amounts : update_actual_value(c, s, v) => OneSave
                 /\ \A p \in BOOLEAN : set_paid_status(c, s, p) => OneSave
                 /\ remove_category_subcategory(c, s) => OneSave
            /\ KeyMask(df, c, s) = {} =>
                 \A e \in Amounts : add_category_subcategory(c, s, e, 0) => OneSave
       /\ \A c \in Categories :
            /\ (CatMask(df, c) # {} /\ remove_category(c)) => OneSave
            /\ (CatMask(df, c) = {} /\ add_category(c)) => OneSave
       /\ \A n \in Individuals, v \in Amounts :
            (NameMask(df, n) # {} /\ update_monthly_income(n, v)) => OneSave
       /\ (ExpenseMask(df) # {} /\ reset_monthly)
            => (OneSave /\ AllReset(df'))]_vars

\* reset_monthly has reset two expense records with one save: one backup was
\* made and the file holds both rows reset
C18_Witness ==
    /\ ret.fn = "reset_monthly" /\ ret.ok /\ ret.saves = 1
    /\ clock = 1 /\ nsaved = 1 /\ Cardinality(DOMAIN backups) = 1
    /\ Cardinality(ExpenseMask(df)) >= 2 /\ AllReset(df)
    /\ disk.data = to_excel(df)

\* C19: set_paid_status changes Paid and Payment Date of a record only when
\* the flag changes: unpaid to paid stamps today, paid to unpaid clears the
\* date, and paid to paid leaves the date of the first stamp.
C19_PaidTransitions ==
    [][\A c \in Categories, s \in Subs, p \in BOOLEAN :
          (KeyMask(df, c, s) # {} /\ set_paid_status(c, s, p))
              => \A i \in KeyMask(df, c, s) :
                    /\ (~df[i].Paid /\ p)
                          => (df'[i].Paid /\ df'[i].PaymentDate = today(clock))
                    /\ (df[i].Paid /\ ~p)
                          => (~df'[i].Paid /\ df'[i].PaymentDate = NaT)
                    /\ (df[i].Paid <=> p)
                          => /\ df'[i].Paid = df[i].Paid
                             /\ df'[i].PaymentDate = df[i].PaymentDate]_vars

\* the handlers that work on expense records
ExpenseOps ==
    {"update_expected_value", "update_actual_value", "set_paid_status",
     "add_category_subcategory", "add_category", "remove_category_subcategory",
     "remove_category"}

\* C20: a handler that works on expense records leaves the individuals, the
\* Monthly Income of each and the total income as they were, on a sheet
\* whose rows carry an individual and an expense at once as on any other.
C20_IncomeUntouched ==
    [][ret'.fn \in ExpenseOps
          => /\ Incomes(df') = Incomes(df)
             /\ get_total_income(df') = get_total_income(df)]_vars

(* ------------------- single fields, additions, removals --------------- *)
\* what get_total_income counts for an individual
IncomeOf(t, n) ==
    IF t[iloc0(t, n)].Income # NaN THEN t[iloc0(t, n)].Income ELSE 0

\* C23: update_monthly_income(n, v) called on a name the table holds sets the
\* Monthly Income of every row of that name to v and changes nothing else of
\* any row; the total income then counts v for n and what it counted before
\* for every other individual.
C23_IncomeOnEveryRow ==
    [][\A n \in Individuals, v \in Amounts :
          (NameMask(df, n) # {} /\ update_monthly_income(n, v))
              => /\ Len(df') = Len(df)
                 /\ \A i \in DOMAIN df :
                       df'[i] = IF df[i].Name = n
                                THEN [df[i] EXCEPT !.Income = v]
                                ELSE df[i]
                 /\ IncomeOf(df', n) = v
                 /\ get_total_income(df')
                      = Sum([m \in IndividualsOf(df) |->
                               IF m = n THEN v ELSE IncomeOf(df, m)],
                            IndividualsOf(df))]_vars

C23_Witness ==
    /\ ret.fn = "update_monthly_income"
    /\ ret.ok
    /\ Cardinality(NameMask(df, "A")) = 2
    /\ \A i \in NameMask(df, "A") : df[i].Income = 1
    /\ get_total_income(df) = 1

\* C24: add_category(c) returns before any change, with no save, exactly when
\* an expense record of category c exists; otherwise it appends the one
\* record (c, "Other") with Expected 0, Actuals 0, not paid and no dates,
\* every row the table had staying as it was, and saves once.
C24_AddCategory ==
    [][\A c \in Categories :
          add_category(c)
              => IF \E i \in ExpenseMask(df) : df[i].Category = c
                 THEN /\ ~ret'.ok /\ ret'.saves = 0
                      /\ df' = df
                      /\ UNCHANGED files
                 ELSE /\ ret'.saves = 1
                      /\ df' = Append(df, Row(NA, NaN, c, "Other", 0, 0,
                                              NaT, NaT, FALSE))]_vars

C24_Witness ==
    /\ ret.fn = "add_category"
    /\ ret.ok
    /\ Len(df) > 1
    /\ df[Len(df)] = Row(NA, NaN, "c2", "Other", 0, 0, NaT, NaT, FALSE)
    /\ disk.data = to_excel(df)

\* C25: remove_category_subcategory(c, s) called on a key the table holds
\* removes the one expense record of that key; the other expense records
\* keep their values and their order.
C25_RemoveOneRecord ==
    [][\A c \in Categories, s \in Subs :
          (KeyMask(df, c, s) # {} /\ remove_category_subcategory(c, s))
              => /\ ExpenseRows(df')
                      = SelectSeq(ExpenseRows(df),
                                  LAMBDA r : ~(r.Category = c /\ r.SubCategory = s))
                 /\ Len(ExpenseRows(df')) = Len(ExpenseRows(df)) - 1]_vars

C25_Witness ==
    /\ ret.fn = "remove_category_subcategory"
    /\ ret.ok
    /\ Len(ExpenseRows(df)) = 2
    /\ \E i \in DOMAIN df : df[i].Category = "c1" /\ df[i].SubCategory = "Other"
    /\ KeyMask(df, "c1", "s1") = {}
    /\ disk.data = to_excel(df)

(* --------------------- what a failed save reports --------------------- *)
\* the system call whose failure makes the running call return
FailedStep ==
    IF sv.pc = "cleanup"
    THEN (IF sv.tmp = "partial" THEN "to_excel" ELSE "replace")
    ELSE sv.pc

\* the step that the words save_excel_data puts into its message name: the
\* backup has words of its own, the others are the text of the exception
StepNamed(msg) ==
    IF msg = "Failed to create backup" THEN "copy2" ELSE "none"

\* C26: a save that fails at the creation of the directory, at the backup
\* copy, at the write of the temp file or at the replace returns a message
\* that names that step, so that the four can be told apart by the message.
C26_ErrorNamesStep ==
    [][(/\ sv.pc # "done" /\ sv'.pc = "done" /\ ~sv'.ok
        /\ FailedStep \in {"makedirs", "copy2", "to_excel", "replace"})
          => StepNamed(sv'.msg) = FailedStep]_vars

(* ----------------------- the frame of the setters --------------------- *)
\* "Save Changes" pressed with a new Due Date only: the amounts and the Paid
\* box are as the form filled them in, from the record
save_expense_due_date(category, subcategory, due_val) ==
    \E i \in KeyMask(df, category, subcategory) :
        save_expense(category, subcategory, df[i].Expected, df[i].Actuals,
                     due_val, df[i].Paid)

\* a table that differs from t in the fields F of the record (c, s) at most
SameBut(u, t, c, s, F) ==
    /\ Len(u) = Len(t)
    /\ \A i \in DOMAIN t :
          IF t[i].Category = c /\ t[i].SubCategory = s
          THEN \A f \in DOMAIN t[i] \ F : u[i][f] = t[i][f]
          ELSE u[i] = t[i]

\* update_expected_value writes Expected and nothing else
C22_ExpectedFrame ==
    [][\A c \in Categories, s \in Subs, v \in Amounts :
          (KeyMask(df, c, s) # {} /\ update_expected_value(c, s, v))
              => /\ SameBut(df', df, c, s, {"Expected"})
                 /\ \A i \in KeyMask(df, c, s) : df'[i].Expected = v]_vars

\* update_actual_value writes Actuals and nothing else
C22_ActualFrame ==
    [][\A c \in Categories, s \in Subs, v \in Amounts :
          (KeyMask(df, c, s) # {} /\ update_actual_value(c, s, v))
              => /\ SameBut(df', df, c, s, {"Actuals"})
                 /\ \A i \in KeyMask(df, c, s) : df'[i].Actuals = v]_vars

\* C22: each setter of one field changes that field of the record of its key
\* and nothing else: update_expected_value Expected, update_actual_value
\* Actuals, and the setting of a Due Date through "Save Changes" the Due Date;
\* Paid, Payment Date, the other fields and the other rows stay as they were.
C22_SetterFrame ==
    [][/\ \A c \in Categories, s \in Subs, v \in Amounts :
            /\ (KeyMask(df, c, s) # {} /\ update_expected_value(c, s, v))
                  => SameBut(df', df, c, s, {"Expected"})
            /\ (KeyMask(df, c, s) # {} /\ update_actual_value(c, s, v))
                  => SameBut(df', df, c, s, {"Actuals"})
       /\ \A c \in Categories, s \in Subs, d \in DueDates :
            save_expense_due_date(c, s, d)
                => SameBut(df', df, c, s, {"DueDate"})]_vars

(* -------------------- saves over a directory of backups --------------- *)
\* What earlier sessions left behind, the clock of this session starting at
\* 0. A file and the backups of five saves, one a second, each of which
\* replaced the file: every backup carries the mtime of the version it
\* copied. Or a file written once and the backups of five saves that each
\* failed at the write of the temp file: every backup is a copy of the same
\* file and carries its mtime.
Histories ==
    {[mt |-> -TicksPerSecond,
      bak |-> [s \in -BACKUP_RETENTION .. -1 |-> (s - 1) * TicksPerSecond]],
     [mt |-> -(BACKUP_RETENTION + 1) * TicksPerSecond,
      bak |-> [s \in -BACKUP_RETENTION .. -1 |->
                  -(BACKUP_RETENTION + 1) * TicksPerSecond]]}

PurgeInit ==
    /\ df = OneRow
    /\ dirExists = TRUE
    /\ \E h \in Histories :
         /\ disk = [exists |-> TRUE, data |-> to_excel(df), mt |-> h.mt,
                    whole |-> TRUE]
         /\ backups = h.bak
    /\ tmpfiles = 0
    /\ clock = 0
    /\ sv = Idle
    /\ faults = 0
    /\ nsaved = 0
    /\ ret = Result("load_excel_data", TRUE, "", "", 0)
    /\ shown = NotShown
    /\ peer = Idle

PurgeNext ==
    /\ clock < MaxPurgeClock
    /\ \/ \E v \in Amounts : update_actual_value_call("c1", "s1", v)
       \/ save_excel_data_step
       \/ update_actual_value_return
       \/ Tick

PurgeSpec == PurgeInit /\ [][PurgeNext]_vars

\* C27: the purge of old backups, failed or not, is followed by the making of
\* the temp file with the backing file and the table as they were, and the
\* call whose write and replace then succeed returns success with the table
\* in the backing file.
C27_PurgeNeverBlocks ==
    [][/\ (sv.pc = "purge" /\ sv' # sv)
            => /\ sv'.pc = "mkstemp" /\ sv'.ok
               /\ sv'.table = sv.table
               /\ disk' = disk
       /\ (sv.pc = "replace" /\ sv' # sv /\ faults' = faults)
            => /\ sv'.pc = "done" /\ sv'.ok
               /\ disk'.data = to_excel(sv.table)]_vars

\* a call has returned success although its purge left a backup too many
C27_Witness ==
    /\ sv.pc = "done" /\ sv.ok
    /\ faults > 0
    /\ Cardinality(DOMAIN backups) > BACKUP_RETENTION
    /\ disk.data = to_excel(sv.table)
    /\ disk.mt > 0

\* C29: the purge of a call never removes the backup that the call has just
\* made, whatever the mtimes of the backups in the directory.
C29_NewBackupSurvives ==
    [][(sv.pc = "purge" /\ sv.backup_path \in DOMAIN backups)
          => sv.backup_path \in DOMAIN backups']_vars

(* --------------------------- the script's start ----------------------- *)
\* 'df' not in st.session_state: the script has not run in this session
NoTable == <<[NoTable |-> TRUE]>>

\* cols_to_ensure
Defaults == [PaymentDate |-> NaT, DueDate |-> NaT, Paid |-> FALSE]

\* for col, default in cols_to_ensure.items():
\*     if col not in df.columns: df[col] = default
Ensure(t) == [i \in DOMAIN t |-> t[i] @@ Defaults]

\* the table the script goes on with
Loaded == IF df = NoTable THEN load_excel_data(disk) ELSE df

\* a start that makes an empty sheet of its own when none can be loaded
startup_new_sheet ==
    LET t == IF Loaded = None THEN <<>> ELSE Ensure(Loaded) IN
    /\ df' = t
    /\ \E w \in save_excel_data(t) :
         /\ Becomes(w)
         /\ ret' = Result("startup", w.fr.ok,
                          IF w.fr.ok THEN ""
                          ELSE "Failed to save master sheet after adding missing columns",
                          w.fr.msg, 1)

\* the top of the script, run at the start of the session and again on each
\* interaction: load once, st.stop() without a table, else add the missing
\* columns and save
startup ==
    IF Loaded = None
    THEN /\ df' = None
         /\ ret' = Result("startup", FALSE, "st.stop", "", 0)
         /\ UNCHANGED <<files, clock, sv, faults, nsaved, shown, peer>>
    ELSE /\ df' = Ensure(Loaded)
         /\ \E w \in save_excel_data(Ensure(Loaded)) :
              /\ Becomes(w)
              /\ ret' = Result("startup", w.fr.ok,
                               IF w.fr.ok THEN ""
                               ELSE "Failed to save master sheet after adding missing columns",
                               w.fr.msg, 1)

\* a table as a sheet without the columns cols holds it
Without(t, cols) == [i \in DOMAIN t |-> [f \in DOMAIN t[i] \ cols |-> t[i][f]]]

\* the sheets a session may start on: with the three columns, without Paid,
\* without any of the three
StartSheets ==
    {to_excel(Without(t, cols)) :
        t \in {u \in LoadedTables : u # <<>> /\ \A i \in DOMAIN u : ~u[i].Paid
                                            /\ u[i].DueDate = NaT},
        cols \in {{}, {"Paid"}, {"PaymentDate", "DueDate", "Paid"}}}
    \cup {to_excel(t) : t \in LoadedTables \ {<<>>}}

\* the backing file at the start of a session: missing, not readable, a sheet
StartFiles ==
    {NoFile, [exists |-> TRUE, data |-> <<>>, mt |-> 0, whole |-> FALSE]}
    \cup {[exists |-> TRUE, data |-> x, mt |-> 0, whole |-> TRUE] : x \in StartSheets}

StartInit ==
    /\ df = NoTable
    /\ dirExists = TRUE
    /\ disk \in StartFiles
    /\ backups = <<>>
    /\ tmpfiles = 0
    /\ clock = 0
    /\ sv = Idle
    /\ faults = 0
    /\ nsaved = 0
    /\ ret = Result("", TRUE, "", "", 0)
    /\ shown = NotShown
    /\ peer = Idle

\* the script runs; once it has passed its top a handler may be called
StartNext ==
    /\ clock < MaxStartClock
    /\ \/ startup
       \/ /\ ret.fn # "" /\ df # None
          /\ \E c \in Categories, s \in Subs, v \in Amounts :
                update_actual_value(c, s, v)
       \/ Tick

StartSpec == StartInit /\ [][StartNext]_vars

\* C21: a session whose backing file is missing or cannot be read gets no
\* table, the script stops at its top on that run and on every later one, no
\* handler is called, and neither the file nor a backup nor a temp file is
\* written.
C21_NoTableNoWrite ==
    [][/\ (df = NoTable /\ (~disk.exists \/ ~disk.whole) /\ ret' # ret)
            => df' = None
       /\ (df = None \/ df' = None)
            => /\ df' = None
               /\ ret'.fn = "startup" /\ ~ret'.ok /\ ret'.saves = 0
               /\ UNCHANGED <<files, nsaved>>
               /\ backups = <<>> /\ tmpfiles = 0]_vars

\* the script has stopped over a file it could not read
C21_Witness ==
    /\ df = None
    /\ ret.fn = "startup" /\ ~ret.ok
    /\ disk.exists /\ ~disk.whole
    /\ backups = <<>>
    /\ clock > 0

\* the three columns are in the table
HasColumns(t) == \A i \in DOMAIN t : DOMAIN Defaults \subseteq DOMAIN t[i]

\* C28: a run of the top of the script over a table that has the columns
\* Payment Date, Due Date and Paid writes nothing: the backing file is as it
\* was and no backup is made.
C28_SaveOnlyWhenColumnsAdded ==
    [][(ret'.fn = "startup" /\ ret' # ret /\ Loaded # None /\ HasColumns(Loaded))
          => (disk' = disk /\ backups' = backups)]_vars

(* ------------------ two processes saving the same file ---------------- *)
\* the world as the call of the other process sees it
PeerWorld == [World EXCEPT !.fr = peer]

\* the tables the other process may hold of the same sheet
PeerTables == {SetActuals(OneRow, {1}, v) : v \in Amounts}

\* the other process calls save_excel_data(t)
peer_save_excel_data_call(t) ==
    /\ peer.pc = "idle"
    /\ LET w == Enter(Called(PeerWorld), t) IN
         Lands(w) /\ peer' = w.fr
    /\ UNCHANGED <<df, sv, nsaved, ret, shown>>

\* the next system call of the other process's save_excel_data
peer_save_excel_data_step ==
    /\ peer.pc \notin {"idle", "done"}
    /\ \E w \in Step(PeerWorld) : Lands(w) /\ peer' = w.fr
    /\ UNCHANGED <<df, sv, nsaved, ret, shown>>

PeerInit == SaveInit

\* calls are started while the clock is below its bound; a call that was
\* started runs on
PeerNext ==
    \/ /\ clock < MaxPeerClock
       /\ \/ \E v \in Amounts : update_actual_value_call("c1", "s1", v)
          \/ \E t \in PeerTables : peer_save_excel_data_call(t)
          \/ Tick
    \/ save_excel_data_step
    \/ peer_save_excel_data_step
    \/ update_actual_value_return

PeerSpec == PeerInit /\ [][PeerNext]_vars

\* the replace of a call has put its temp file in place
Replaced(fr, gr) == fr.pc = "replace" /\ gr.pc = "done" /\ gr.ok

\* C30: with two processes in save_excel_data at once, each has a temp file of
\* its own; the backing file is whole at every step and changes only by the
\* replace of one of the two, to the table of that call, so that it ends as
\* the table of the call that replaced last; and when no system call failed
\* both calls return success.
C30_LastReplaceWins ==
    [][/\ disk'.exists /\ disk'.whole
       /\ (sv'.tmp # "none" /\ peer'.tmp # "none") => tmpfiles' >= 2
       /\ Replaced(sv, sv') => disk'.data = to_excel(sv.table)
       /\ Replaced(peer, peer') => disk'.data = to_excel(peer.table)
       /\ disk' # disk => (Replaced(sv, sv') \/ Replaced(peer, peer'))
       /\ (faults' = 0 /\ sv'.pc = "done" /\ peer'.pc = "done")
             => (sv'.ok /\ peer'.ok)]_vars

\* both calls have returned success with different tables, this process's
\* replace came first and the file holds the table of the other
C30_Witness ==
    /\ sv.pc = "done" /\ sv.ok
    /\ peer.pc = "done" /\ peer.ok
    /\ sv.table # peer.table
    /\ sv.before = peer.before
    /\ disk.data = to_excel(peer.table)
    /\ disk.data # to_excel(df)

get_categories(t) == {t[i].Category : i \in DOMAIN t} \ {NA, ""}

\* a session on a sheet that has every category
CatInit == Init /\ Categories \subseteq get_categories(df)

CatNext ==
    /\ clock < MaxCatClock
    /\ \/ \E c \in Categories, s \in Subs : remove_category_subcategory(c, s)
       \/ \E c \in Categories : remove_category(c)
       \/ \E c \in Categories : Len(df) < MaxRows /\ add_category(c)

CatSpec == CatInit /\ [][CatNext]_vars

\* the expense records of category c all have the subcategory s
LastSubcategory(t, c, s) ==
    /\ KeyMask(t, c, s) # {}
    /\ \A i \in ExpenseMask(t) : t[i].Category = c => t[i].SubCategory = s

\* C31: once remove_category_subcategory has removed the last subcategory of
\* a category c, or remove_category(c) has removed c, get_categories no longer
\* lists c; and add_category(c) called on a table whose categories do not
\* list c is not refused: it appends the record (c, "Other") and saves it.
C31_CategoryThroughRecords ==
    [][\A c \in Categories :
          /\ \A s \in Subs :
                (LastSubcategory(df, c, s) /\ remove_category_subcategory(c, s))
                    => c \notin get_categories(df')
          /\ (CatMask(df, c) # {} /\ remove_category(c))
                => c \notin get_categories(df')
          /\ (c \notin get_categories(df) /\ add_category(c))
                => /\ ret'.msg # "Category already exists!"
                   /\ ret'.saves = 1
                   /\ ret'.ok <=> ret'.err = ""
                   /\ df' = Append(df, Row(NA, NaN, c, "Other", 0, 0,
                                           NaT, NaT, FALSE))
                   /\ c \in get_categories(df')]_vars

\* on a sheet that had every category, a category was removed and then added
\* again and saved
C31_Witness ==
    /\ clock = 2
    /\ ret.fn = "add_category" /\ ret.ok
    /\ nsaved = 2
    /\ df[Len(df)] = Row(NA, NaN, "c1", "Other", 0, 0, NaT, NaT, FALSE)
    /\ KeyMask(df, "c1", "Other") = {Len(df)}
    /\ disk.data = to_excel(df)

====
